---- MODULE Spec2Model ----
(***************************************************************************)
(* The plaintext input converter of the geoip pipeline                     *)
(* (plugin/plaintext/text_in.go): construction (newTextIn), one Input run  *)
(* against a Container, and the line normalisation of scanFile.            *)
(*                                                                         *)
(* Strings are TLA+ strings, read character by character with SubSeq.      *)
(* Indexes returned by Index / LastIndex are Go's (0-based, -1 = absent).  *)
(* lib.Entry and lib.Container are not part of the converter's source;     *)
(* their operations are written from the specification of the library.     *)
(***************************************************************************)
EXTENDS Integers, Sequences, FiniteSets, TLC

VARIABLES
    pc,          \* position of the driver / of Input
    cfg,         \* the raw configuration handed to newTextIn (tmp)
    t,           \* the constructed converter (*textIn), ZeroTextIn before
    ctorErr,     \* the error newTextIn returned
    container,   \* the lib.Container passed to Input: code -> set of prefixes
    container0,  \* the Container as it was when Input started
    entries,     \* Input's local map[string]*lib.Entry
    todo,        \* keys of entries the apply loop has not ranged over yet
    calls,       \* the Container.Add / Container.Remove calls made, in order
    err,         \* the error Input returned (or the pending one)
    returned,    \* TRUE iff Input returned the Container (not nil)
    cands,       \* region codes the source steps resolved, in order
    visited,     \* number of filepath.Walk callbacks so far
    line,        \* scanFile: the line scanner.Text() returned last
    stripped,    \* scanFile: that line after the three strings.Cut calls
    args,        \* scanFile: arguments passed to entry.AddPrefix for that line
    scanEntry,   \* scanFile: prefixes of the entry being filled
    scanErr,     \* scanFile: the error it returns
    nlines       \* scanFile: lines read so far

vars == <<pc, cfg, t, ctorErr, container, container0, entries, todo, calls, err,
          returned, cands, visited, line, stripped, args, scanEntry, scanErr, nlines>>

scanVars == <<line, stripped, args, scanEntry, scanErr, nlines>>

---------------------------------------------------------------------------
(* Bounds of the model *)

\* longest literal ipOrCIDR list a configuration carries
MaxList == 2
\* most filepath.Walk callbacks in one directory walk
MaxFiles == 2
\* most lines in one file or response body
MaxLines == 1
\* longest line scanFile is fed in the line-level specification
MaxLineLen == 4
\* most lines scanFile reads in the line-level specification
MaxScanLines == 2

---------------------------------------------------------------------------
(* Go standard library: strings, path/filepath, regexp *)

Min(S) == CHOOSE x \in S : \A y \in S : x <= y
Max(S) == CHOOSE x \in S : \A y \in S : x >= y

Ch(s, i) == SubSeq(s, i, i)

LowerAlpha == "abcdefghijklmnopqrstuvwxyz"
UpperAlpha == "ABCDEFGHIJKLMNOPQRSTUVWXYZ"
DigitChars == "0123456789"

CharsOf(s) == { Ch(s, i) : i \in 1..Len(s) }

\* 1-based position of the character c in alpha, 0 if absent
PosIn(alpha, c) ==
    LET hits == { i \in 1..Len(alpha) : Ch(alpha, i) = c }
    IN  IF hits = {} THEN 0 ELSE Min(hits)

UpperOf == [c \in CharsOf(LowerAlpha) |-> Ch(UpperAlpha, PosIn(LowerAlpha, c))]
LowerOf == [c \in CharsOf(UpperAlpha) |-> Ch(LowerAlpha, PosIn(UpperAlpha, c))]

ToUpperCh(c) == IF c \in DOMAIN UpperOf THEN UpperOf[c] ELSE c
ToLowerCh(c) == IF c \in DOMAIN LowerOf THEN LowerOf[c] ELSE c

RECURSIVE ToUpper(_)
ToUpper(s) == IF s = "" THEN "" ELSE ToUpperCh(Ch(s, 1)) \o ToUpper(SubSeq(s, 2, Len(s)))

RECURSIVE ToLower(_)
ToLower(s) == IF s = "" THEN "" ELSE ToLowerCh(Ch(s, 1)) \o ToLower(SubSeq(s, 2, Len(s)))

IsSpace(c) == c \in {" ", "\t"}

TrimSpace(s) ==
    LET keep == { i \in 1..Len(s) : ~IsSpace(Ch(s, i)) }
    IN  IF keep = {} THEN "" ELSE SubSeq(s, Min(keep), Max(keep))

\* strings.Index: 0-based index of the first occurrence of sep, -1 if absent
Index(s, sep) ==
    LET hits == { i \in 1..(Len(s) - Len(sep) + 1) : SubSeq(s, i, i + Len(sep) - 1) = sep }
    IN  IF hits = {} THEN -1 ELSE Min(hits) - 1

\* strings.LastIndex
LastIndex(s, sep) ==
    LET hits == { i \in 1..(Len(s) - Len(sep) + 1) : SubSeq(s, i, i + Len(sep) - 1) = sep }
    IN  IF hits = {} THEN -1 ELSE Max(hits) - 1

\* strings.Cut, first result only: the text before the first sep, or all of s
CutBefore(s, sep) ==
    LET At(i) == IF i < 0 THEN s ELSE SubSeq(s, 1, i)
    IN  At(Index(s, sep))

HasPrefix(s, p) == Len(s) >= Len(p) /\ SubSeq(s, 1, Len(p)) = p
HasSuffix(s, p) == Len(s) >= Len(p) /\ SubSeq(s, Len(s) - Len(p) + 1, Len(s)) = p
TrimPrefix(s, p) == IF HasPrefix(s, p) THEN SubSeq(s, Len(p) + 1, Len(s)) ELSE s
TrimSuffix(s, p) == IF HasSuffix(s, p) THEN SubSeq(s, 1, Len(s) - Len(p)) ELSE s

\* filepath.Base: the last element of path; trailing separators removed first
RECURSIVE Base(_)
Base(path) ==
    IF path = "" THEN "."
    ELSE IF Ch(path, Len(path)) = "/"
         THEN (IF Len(path) = 1 THEN "/" ELSE Base(SubSeq(path, 1, Len(path) - 1)))
         ELSE SubSeq(path, LastIndex(path, "/") + 2, Len(path))

\* regexp ^[a-zA-Z0-9_.\-]+$
NameChars == CharsOf(LowerAlpha) \cup CharsOf(UpperAlpha) \cup CharsOf(DigitChars) \cup {"_", ".", "-"}
MatchFileName(s) == s # "" /\ \A i \in 1..Len(s) : Ch(s, i) \in NameChars

---------------------------------------------------------------------------
(* Errors (kinds) *)

None == "none"
ErrJSON == "json: cannot unmarshal"
ErrMissingName == "missing inputDir or name"
ErrMissingURI == "missing uri or ipOrCIDR"
ErrInputDirNotAllowed == "inputDir is not allowed to be used with name or uri or ipOrCIDR"
ErrConfigMissing == "config missing argument inputDir or name or uri or ipOrCIDR"
ErrNoEntry == "no entry is generated"
ErrDuplicated == "found duplicated list"
ErrFilename == "filename cannot be entry name"
ErrOpen == "open: no such file"
ErrRead == "read error"
ErrHTTPGet == "http get failed"
ErrHTTPStatus == "failed to get remote file, http status code"
ErrWalk == "walk error"
ErrParse == "invalid ip or cidr"
ErrUnknownAction == "unknown action"
ErrContainer == "container error"

\* errors raised while reading or parsing a source
SourceErrors == {ErrFilename, ErrOpen, ErrRead, ErrHTTPGet, ErrHTTPStatus, ErrWalk, ErrParse,
                 ErrDuplicated}

---------------------------------------------------------------------------
(* lib: IP prefixes, Entry.AddPrefix, Container.Add / Container.Remove.     *)
(* Addresses are Bits(fam) bits wide; a prefix is [fam, addr, len] with     *)
(* addr masked to len bits.  Text: an address digit, optionally "/" and a   *)
(* length digit; IPv4 addresses are written 0..3, IPv6 addresses a, b.      *)

ActionAdd == "add"
ActionRemove == "remove"
IPv4 == "ipv4"
IPv6 == "ipv6"
IgnoreNone == "ignore nothing"
IgnoreIPv4 == "ignore ipv4"
IgnoreIPv6 == "ignore ipv6"
CaseRemovePrefix == "remove prefix"
CaseRemoveExact == "remove exact"

Bits(fam) == IF fam = IPv4 THEN 2 ELSE 1

RECURSIVE Pow2(_)
Pow2(n) == IF n = 0 THEN 1 ELSE 2 * Pow2(n - 1)

MaskAddr(fam, addr, len) == (addr \div Pow2(Bits(fam) - len)) * Pow2(Bits(fam) - len)

BadPrefix == [fam |-> "bad", addr |-> 0, len |-> 0]

V4Digits == "0123"
V6Digits == "ab"

ParsePrefix(text) ==
    LET Family(addrTxt) ==
            IF Len(addrTxt) = 1 /\ PosIn(V4Digits, addrTxt) > 0 THEN IPv4
            ELSE IF Len(addrTxt) = 1 /\ PosIn(V6Digits, ToLowerCh(addrTxt)) > 0 THEN IPv6
            ELSE "bad"
        Address(fam, addrTxt) ==
            IF fam = IPv4 THEN PosIn(V4Digits, addrTxt) - 1
            ELSE PosIn(V6Digits, ToLowerCh(addrTxt)) - 1
        Build(fam, addr, lenOK, len) ==
            IF fam = "bad" \/ ~lenOK THEN BadPrefix
            ELSE [fam |-> fam, addr |-> MaskAddr(fam, addr, len), len |-> len]
        Sized(slash, fam, addrTxt, lenDigit) ==
            Build(fam, Address(fam, addrTxt),
                  slash < 0 \/ (lenDigit > 0 /\ lenDigit - 1 <= Bits(fam)),
                  IF slash < 0 THEN Bits(fam) ELSE lenDigit - 1)
        Split(slash, addrTxt, lenTxt) ==
            Sized(slash, Family(addrTxt), addrTxt,
                  IF Len(lenTxt) = 1 THEN PosIn(DigitChars, lenTxt) ELSE 0)
        At(slash) ==
            Split(slash,
                  IF slash < 0 THEN text ELSE SubSeq(text, 1, slash),
                  IF slash < 0 THEN "" ELSE SubSeq(text, slash + 2, Len(text)))
    IN  At(Index(text, "/"))

\* p covers q: q is p or lies wholly inside p
Covers(p, q) == p.fam = q.fam /\ p.len <= q.len /\ MaskAddr(q.fam, q.addr, p.len) = p.addr

ParentOf(p) == [fam |-> p.fam, addr |-> MaskAddr(p.fam, p.addr, p.len - 1), len |-> p.len - 1]

Siblings(p, q) == p # q /\ p.fam = q.fam /\ p.len = q.len /\ p.len > 0 /\ ParentOf(p) = ParentOf(q)

\* (d) two halves of a larger prefix are combined into it, repeatedly
RECURSIVE Combine(_)
Combine(S) ==
    IF \E p \in S : \E q \in S : Siblings(p, q)
    THEN LET p == CHOOSE x \in S : \E y \in S : Siblings(x, y)
             q == CHOOSE y \in S : Siblings(p, y)
         IN  Combine((S \ {p, q}) \cup {ParentOf(p)})
    ELSE S

\* (a), (b): a prefix already covered is a no-op; (c): it replaces those it covers
MergePrefix(S, p) ==
    IF \E q \in S : Covers(q, p) THEN S
    ELSE Combine({ q \in S : ~Covers(p, q) } \cup {p})

RECURSIVE MergeAll(_, _)
MergeAll(S, P) ==
    IF P = {} THEN S
    ELSE LET p == CHOOSE x \in P : TRUE IN MergeAll(MergePrefix(S, p), P \ {p})

\* Entry.AddPrefix on an entry's prefix set
AddPrefix(prefixes, text) ==
    LET Merge(p) == IF p = BadPrefix
                    THEN [err |-> ErrParse, prefixes |-> prefixes]
                    ELSE [err |-> None, prefixes |-> MergePrefix(prefixes, p)]
    IN  Merge(ParsePrefix(text))

NewEntry(name) == [name |-> name, prefixes |-> {}]

Ignored(p, ignore) == (ignore = IgnoreIPv4 /\ p.fam = IPv4) \/ (ignore = IgnoreIPv6 /\ p.fam = IPv6)

EmptyMap == <<>>
Put(m, k, v) == [x \in DOMAIN m \cup {k} |-> IF x = k THEN v ELSE m[x]]

\* Container.Add: the Entry for the code is created if absent, then merged into
ContainerAdd(c, entry, ignore) ==
    LET old  == IF entry.name \in DOMAIN c THEN c[entry.name] ELSE {}
        keep == { p \in entry.prefixes : ~Ignored(p, ignore) }
    IN  Put(c, entry.name, MergeAll(old, keep))

\* Container.Remove: a no-op for an absent code; covering mode deletes every
\* stored prefix inside a removed one, exact mode only the literal matches
ContainerRemove(c, entry, mode, ignore) ==
    LET keep == { p \in entry.prefixes : ~Ignored(p, ignore) }
    IN  IF entry.name \notin DOMAIN c THEN c
        ELSE Put(c, entry.name,
                 { q \in c[entry.name] :
                     ~\E p \in keep : IF mode = CaseRemovePrefix THEN Covers(p, q) ELSE p = q })

---------------------------------------------------------------------------
(* newTextIn *)

\* the zero value of textIn
ZeroTextIn ==
    [Action |-> "", Name |-> "", URI |-> "", IPOrCIDR |-> <<>>, InputDir |-> "",
     Want |-> {}, OnlyIPType |-> "", RemovePrefixesInLine |-> <<>>,
     RemoveSuffixesInLine |-> <<>>]

\* faulty variant: the "missing uri or ipOrCIDR" check is left out
newTextInErr_NoSourceCheck(tmp) ==
    IF tmp.InputDir = ""
    THEN IF tmp.Name = "" THEN ErrMissingName ELSE None
    ELSE IF tmp.Name # "" \/ tmp.URI # "" \/ Len(tmp.IPOrCIDR) > 0 THEN ErrInputDirNotAllowed
         ELSE None

\* the validation of the four source fields
newTextInErr(tmp) ==
    IF tmp.InputDir = ""
    THEN IF tmp.Name = "" THEN ErrMissingName
         ELSE IF tmp.URI = "" /\ Len(tmp.IPOrCIDR) = 0 THEN ErrMissingURI
         ELSE None
    ELSE IF tmp.Name # "" \/ tmp.URI # "" \/ Len(tmp.IPOrCIDR) > 0 THEN ErrInputDirNotAllowed
         ELSE None

\* "Filter want list"
wantList(want) == { ToUpper(TrimSpace(want[i])) : i \in DOMAIN want } \ {""}

newTextIn(action, tmp) ==
    IF newTextInErr(tmp) # None
    THEN [err |-> newTextInErr(tmp), t |-> ZeroTextIn]
    ELSE [err |-> None,
          t   |-> [Action |-> action, Name |-> tmp.Name, URI |-> tmp.URI,
                   IPOrCIDR |-> tmp.IPOrCIDR, InputDir |-> tmp.InputDir,
                   Want |-> wantList(tmp.Want), OnlyIPType |-> tmp.OnlyIPType,
                   RemovePrefixesInLine |-> tmp.RemovePrefixesInLine,
                   RemoveSuffixesInLine |-> tmp.RemoveSuffixesInLine]]

---------------------------------------------------------------------------
(* scanFile *)

\* faulty variant: the "/*" marker is not cut
StripComments_NoBlockMarker(raw) == CutBefore(CutBefore(raw, "#"), "//")

\* the three strings.Cut calls, in the order of the source
StripComments(raw) == CutBefore(CutBefore(CutBefore(raw, "#"), "//"), "/*")

RECURSIVE RemovePrefixes(_, _)
RemovePrefixes(l, ps) ==
    IF ps = <<>> THEN l
    ELSE RemovePrefixes(TrimSpace(TrimPrefix(l, ToLower(TrimSpace(Head(ps))))), Tail(ps))

RECURSIVE RemoveSuffixes(_, _)
RemoveSuffixes(l, ss) ==
    IF ss = <<>> THEN l
    ELSE RemoveSuffixes(TrimSpace(TrimSuffix(l, ToLower(TrimSpace(Head(ss))))), Tail(ss))

\* one iteration of the scanner loop: the line after comment stripping, and
\* the arguments of the entry.AddPrefix calls it makes
scanLine(conv, raw) ==
    LET Arg(cleaned) == IF cleaned = "" THEN <<>> ELSE <<cleaned>>
        Rest(trimmed) ==
            IF trimmed = "" THEN <<>>
            ELSE Arg(TrimSpace(RemoveSuffixes(RemovePrefixes(ToLower(trimmed),
                                                             conv.RemovePrefixesInLine),
                                              conv.RemoveSuffixesInLine)))
        Line(cut) == [stripped |-> cut, args |-> Rest(TrimSpace(cut))]
    IN  Line(StripComments(raw))

\* the whole loop over the lines the reader yields; readErr is scanner.Err()
RECURSIVE scanFile(_, _, _, _)
scanFile(conv, lines, readErr, prefixes) ==
    IF lines = <<>>
    THEN [err |-> IF readErr THEN ErrRead ELSE None, prefixes |-> prefixes]
    ELSE LET Added(r) == IF r.err # None THEN [err |-> r.err, prefixes |-> r.prefixes]
                         ELSE scanFile(conv, Tail(lines), readErr, r.prefixes)
             Line(a)  == IF a = <<>> THEN scanFile(conv, Tail(lines), readErr, prefixes)
                         ELSE Added(AddPrefix(prefixes, a[1]))
         IN  Line(scanLine(conv, Head(lines)).args)

---------------------------------------------------------------------------
(* walkLocalFile, walkRemoteFile, appendIPOrCIDR.  Each returns the error,  *)
(* the entries map as it leaves it, and the region code it resolved.        *)

Step(e, ents, codes) == [err |-> e, entries |-> ents, cands |-> codes]

\* faulty variant: no duplicate check, a second file of the same code replaces the first
walkLocalFile_NoDuplicateCheck(conv, path, name, file, ents) ==
    LET Stem(base, dotIndex) == IF dotIndex > 0 THEN SubSeq(base, 1, dotIndex) ELSE base
        Stored(entryName, scanned) ==
            IF scanned.err # None THEN Step(scanned.err, ents, <<entryName>>)
            ELSE Step(None,
                      Put(ents, entryName, [name |-> entryName, prefixes |-> scanned.prefixes]),
                      <<entryName>>)
        Keyed(trimmed, base, entryName) ==
            IF trimmed = "" /\ ~MatchFileName(base) THEN Step(ErrFilename, ents, <<>>)
            ELSE IF conv.Want # {} /\ entryName \notin conv.Want THEN Step(None, ents, <<entryName>>)
            ELSE IF ~file.openOK THEN Step(ErrOpen, ents, <<entryName>>)
            ELSE Stored(entryName, scanFile(conv, file.lines, file.readErr, {}))
        Named(trimmed, base) ==
            Keyed(trimmed, base,
                  ToUpper(IF trimmed # "" THEN trimmed ELSE Stem(base, LastIndex(base, "."))))
    IN  Named(TrimSpace(name), Base(path))

\* file: [openOK, lines, readErr], what os.Open and the reader give for path
walkLocalFile(conv, path, name, file, ents) ==
    LET Stem(base, dotIndex) == IF dotIndex > 0 THEN SubSeq(base, 1, dotIndex) ELSE base
        Stored(entryName, scanned) ==
            IF scanned.err # None THEN Step(scanned.err, ents, <<entryName>>)
            ELSE Step(None,
                      Put(ents, entryName, [name |-> entryName, prefixes |-> scanned.prefixes]),
                      <<entryName>>)
        Keyed(trimmed, base, entryName) ==
            IF trimmed = "" /\ ~MatchFileName(base) THEN Step(ErrFilename, ents, <<>>)
            ELSE IF conv.Want # {} /\ entryName \notin conv.Want THEN Step(None, ents, <<entryName>>)
            ELSE IF entryName \in DOMAIN ents THEN Step(ErrDuplicated, ents, <<entryName>>)
            ELSE IF ~file.openOK THEN Step(ErrOpen, ents, <<entryName>>)
            ELSE Stored(entryName, scanFile(conv, file.lines, file.readErr, {}))
        Named(trimmed, base) ==
            Keyed(trimmed, base,
                  ToUpper(IF trimmed # "" THEN trimmed ELSE Stem(base, LastIndex(base, "."))))
    IN  Named(TrimSpace(name), Base(path))

\* resp: [getOK, status, lines, readErr], what http.Get gives for url
walkRemoteFile(conv, url, name, resp, ents) ==
    LET Stored(upper, scanned) ==
            IF scanned.err # None THEN Step(scanned.err, ents, <<upper>>)
            ELSE Step(None, Put(ents, upper, [name |-> upper, prefixes |-> scanned.prefixes]),
                      <<upper>>)
        Keyed(upper) ==
            IF ~resp.getOK THEN Step(ErrHTTPGet, ents, <<>>)
            ELSE IF resp.status # 200 THEN Step(ErrHTTPStatus, ents, <<>>)
            ELSE IF conv.Want # {} /\ upper \notin conv.Want THEN Step(None, ents, <<upper>>)
            ELSE Stored(upper, scanFile(conv, resp.lines, resp.readErr, {}))
    IN  Keyed(ToUpper(name))

RECURSIVE addAll(_, _)
addAll(prefixes, list) ==
    IF list = <<>> THEN [err |-> None, prefixes |-> prefixes]
    ELSE LET Added(r) == IF r.err # None THEN r ELSE addAll(r.prefixes, Tail(list))
         IN  Added(AddPrefix(prefixes, TrimSpace(Head(list))))

\* faulty variant: the loop skips the first element of the list
appendIPOrCIDR_SkipsFirst(conv, ipOrCIDR, name, ents) ==
    LET Done(upper, entry, added) ==
            IF added.err # None
            THEN \* a found entry is a pointer into the map: it keeps what was added
                 Step(added.err,
                      IF upper \in DOMAIN ents
                      THEN Put(ents, upper, [name |-> entry.name, prefixes |-> added.prefixes])
                      ELSE ents,
                      <<upper>>)
            ELSE Step(None, Put(ents, upper, [name |-> entry.name, prefixes |-> added.prefixes]),
                      <<upper>>)
        Found(upper, entry) == Done(upper, entry, addAll(entry.prefixes, IF ipOrCIDR = <<>> THEN <<>> ELSE Tail(ipOrCIDR)))
        Keyed(upper) == Found(upper, IF upper \in DOMAIN ents THEN ents[upper] ELSE NewEntry(upper))
    IN  Keyed(ToUpper(name))

appendIPOrCIDR(conv, ipOrCIDR, name, ents) ==
    LET Done(upper, entry, added) ==
            IF added.err # None
            THEN \* a found entry is a pointer into the map: it keeps what was added
                 Step(added.err,
                      IF upper \in DOMAIN ents
                      THEN Put(ents, upper, [name |-> entry.name, prefixes |-> added.prefixes])
                      ELSE ents,
                      <<upper>>)
            ELSE Step(None, Put(ents, upper, [name |-> entry.name, prefixes |-> added.prefixes]),
                      <<upper>>)
        Found(upper, entry) == Done(upper, entry, addAll(entry.prefixes, ipOrCIDR))
        Keyed(upper) == Found(upper, IF upper \in DOMAIN ents THEN ents[upper] ELSE NewEntry(upper))
    IN  Keyed(ToUpper(name))

---------------------------------------------------------------------------
(* Input *)

IsRemote(uri) == HasPrefix(ToLower(uri), "http://") \/ HasPrefix(ToLower(uri), "https://")

\* the source switch of Input for a converter without inputDir; src is what
\* the file system or the network gives for t.URI
InputSwitch(conv, src, ents) ==
    IF conv.Name # "" /\ conv.URI # ""
    THEN LET Join(r1, r2) == Step(r2.err, r2.entries, r1.cands \o r2.cands)
             \* fallthrough: the next case's condition is not evaluated
             Fall(r1) == IF r1.err # None THEN r1
                         ELSE Join(r1, appendIPOrCIDR(conv, conv.IPOrCIDR, conv.Name, r1.entries))
         IN  Fall(IF IsRemote(conv.URI)
                  THEN walkRemoteFile(conv, conv.URI, conv.Name, src, ents)
                  ELSE walkLocalFile(conv, conv.URI, conv.Name, src, ents))
    ELSE IF conv.Name # "" /\ Len(conv.IPOrCIDR) > 0
    THEN appendIPOrCIDR(conv, conv.IPOrCIDR, conv.Name, ents)
    ELSE Step(ErrConfigMissing, ents, <<>>)

\* faulty variant: the two families are swapped
ignoreIPType_Swapped(conv) ==
    IF conv.OnlyIPType = IPv4 THEN IgnoreIPv4
    ELSE IF conv.OnlyIPType = IPv6 THEN IgnoreIPv6
    ELSE IgnoreNone

\* translation of OnlyIPType into the ignore option
ignoreIPType(conv) ==
    IF conv.OnlyIPType = IPv4 THEN IgnoreIPv6
    ELSE IF conv.OnlyIPType = IPv6 THEN IgnoreIPv4
    ELSE IgnoreNone

\* Input after the source switch: the pending error, the empty check
afterRead(e, ents) ==
    IF e # None THEN [pc |-> "done", err |-> e, todo |-> {}]
    ELSE IF DOMAIN ents = {} THEN [pc |-> "done", err |-> ErrNoEntry, todo |-> {}]
    ELSE [pc |-> "apply", err |-> None, todo |-> DOMAIN ents]

Call(op, entry, mode, ignore, ok) ==
    [op |-> op, code |-> entry.name, mode |-> mode, ignore |-> ignore, ok |-> ok]

\* faulty variant: Remove is called in exact mode
applyEntry_ExactRemove(conv, c, entry, ok) ==
    IF conv.Action = ActionAdd
    THEN [err |-> IF ok THEN None ELSE ErrContainer,
          container |-> IF ok THEN ContainerAdd(c, entry, ignoreIPType(conv)) ELSE c,
          calls |-> <<Call("Add", entry, "", ignoreIPType(conv), ok)>>]
    ELSE IF conv.Action = ActionRemove
    THEN [err |-> IF ok THEN None ELSE ErrContainer,
          container |-> IF ok
                        THEN ContainerRemove(c, entry, CaseRemoveExact, ignoreIPType(conv))
                        ELSE c,
          calls |-> <<Call("Remove", entry, CaseRemoveExact, ignoreIPType(conv), ok)>>]
    ELSE [err |-> ErrUnknownAction, container |-> c, calls |-> <<>>]

\* faulty variant: the action is checked only after the entry was added
applyEntry_ActionCheckedLate(conv, c, entry, ok) ==
    IF conv.Action = ActionRemove
    THEN [err |-> IF ok THEN None ELSE ErrContainer,
          container |-> IF ok
                        THEN ContainerRemove(c, entry, CaseRemovePrefix, ignoreIPType(conv))
                        ELSE c,
          calls |-> <<Call("Remove", entry, CaseRemovePrefix, ignoreIPType(conv), ok)>>]
    ELSE [err |-> IF ~ok THEN ErrContainer
                  ELSE IF conv.Action = ActionAdd THEN None ELSE ErrUnknownAction,
          container |-> IF ok THEN ContainerAdd(c, entry, ignoreIPType(conv)) ELSE c,
          calls |-> <<Call("Add", entry, "", ignoreIPType(conv), ok)>>]

\* one iteration of the apply loop; ok: whether the Container call succeeds
applyEntry(conv, c, entry, ok) ==
    IF conv.Action = ActionAdd
    THEN [err |-> IF ok THEN None ELSE ErrContainer,
          container |-> IF ok THEN ContainerAdd(c, entry, ignoreIPType(conv)) ELSE c,
          calls |-> <<Call("Add", entry, "", ignoreIPType(conv), ok)>>]
    ELSE IF conv.Action = ActionRemove
    THEN [err |-> IF ok THEN None ELSE ErrContainer,
          container |-> IF ok
                        THEN ContainerRemove(c, entry, CaseRemovePrefix, ignoreIPType(conv))
                        ELSE c,
          calls |-> <<Call("Remove", entry, CaseRemovePrefix, ignoreIPType(conv), ok)>>]
    ELSE [err |-> ErrUnknownAction, container |-> c, calls |-> <<>>]

---------------------------------------------------------------------------
(* The inputs: configurations, files, responses *)

RECURSIVE SeqsUpTo(_, _)
SeqsUpTo(S, n) ==
    IF n = 0 THEN {<<>>}
    ELSE SeqsUpTo(S, n - 1) \cup { Append(q, x) : q \in { r \in SeqsUpTo(S, n - 1) : Len(r) = n - 1 }, x \in S }

Actions == {ActionAdd, ActionRemove, "merge"}
Names == {"", "cn", " au"}
URIs == {"", "Http://h/cn", "lists/cn.txt"}
Literals == {"0/1", " 1/2 ", "zz"}
InputDirs == {"", "data"}
WantLists == {<<>>, <<" cn ">>, <<"zz", " ">>}
OnlyIPTypes == {"", IPv4, IPv6}

Tmps ==
    [Name : Names, URI : URIs, IPOrCIDR : SeqsUpTo(Literals, MaxList), InputDir : InputDirs,
     Want : WantLists, OnlyIPType : OnlyIPTypes,
     RemovePrefixesInLine : {<<" P ">>}, RemoveSuffixesInLine : {<<>>}]

ZeroTmp ==
    [Name |-> "", URI |-> "", IPOrCIDR |-> <<>>, InputDir |-> "", Want |-> <<>>,
     OnlyIPType |-> "", RemovePrefixesInLine |-> <<>>, RemoveSuffixesInLine |-> <<>>]

FileLines == {"0/1 # lan", "P B", "zz"}

File(ok, ls, re) == [openOK |-> ok, lines |-> ls, readErr |-> re]

Files ==
    {File(FALSE, <<>>, FALSE), File(TRUE, <<>>, TRUE)}
        \cup { File(TRUE, ls, FALSE) : ls \in SeqsUpTo(FileLines, MaxLines) }

Resp(ok, st, ls, re) == [getOK |-> ok, status |-> st, lines |-> ls, readErr |-> re]

Responses ==
    {Resp(FALSE, 0, <<>>, FALSE), Resp(TRUE, 404, <<>>, FALSE), Resp(TRUE, 200, <<>>, TRUE)}
        \cup { Resp(TRUE, 200, ls, FALSE) : ls \in SeqsUpTo(FileLines, MaxLines) }

FileNames == {"cn.txt", "CN.TXT", "au", ".cn", "c n"}

WalkItem(we, dir, b, f) == [walkErr |-> we, isDir |-> dir, base |-> b, file |-> f]

WalkItems ==
    {WalkItem(TRUE, FALSE, "gone", File(FALSE, <<>>, FALSE)),
     WalkItem(FALSE, TRUE, "sub", File(FALSE, <<>>, FALSE))}
        \cup { WalkItem(FALSE, FALSE, b, f) : b \in FileNames, f \in Files }

InitContainers ==
    {EmptyMap, Put(EmptyMap, "CN", {ParsePrefix("0"), ParsePrefix("b")})}

---------------------------------------------------------------------------
(* The state machine: the driver builds a converter and runs Input once    *)

ScanInit ==
    /\ line = ""
    /\ stripped = ""
    /\ args = <<>>
    /\ scanEntry = {}
    /\ scanErr = None
    /\ nlines = 0

Init ==
    /\ pc = "new"
    /\ cfg = ZeroTmp
    /\ t = ZeroTextIn
    /\ ctorErr = None
    /\ container \in InitContainers
    /\ container0 = container
    /\ entries = EmptyMap
    /\ todo = {}
    /\ calls = <<>>
    /\ err = None
    /\ returned = FALSE
    /\ cands = <<>>
    /\ visited = 0
    /\ ScanInit

\* the registered creator: newTextIn(action, data)
NewTextIn ==
    /\ pc = "new"
    /\ \E a \in Actions, tmp \in Tmps :
          \E r \in {newTextIn(a, tmp)} :
             /\ cfg' = tmp
             /\ ctorErr' = r.err
             /\ t' = r.t
             /\ pc' = IF r.err = None THEN "ready" ELSE "rejected"
    /\ UNCHANGED <<container, container0, entries, todo, calls, err, returned, cands, visited>>
    /\ UNCHANGED scanVars

\* json.Unmarshal fails on the raw configuration
NewTextInBadJSON ==
    /\ pc = "new"
    /\ ctorErr' = ErrJSON
    /\ pc' = "rejected"
    /\ UNCHANGED <<cfg, t, container, container0, entries, todo, calls, err, returned, cands,
                   visited>>
    /\ UNCHANGED scanVars

\* Input up to the end of the source switch (for inputDir: up to filepath.Walk)
InputBegin ==
    /\ pc = "ready"
    /\ IF t.InputDir # ""
       THEN /\ pc' = "walk"
            /\ UNCHANGED <<entries, todo, err, cands>>
       ELSE \E r \in { InputSwitch(t, src, EmptyMap) :
                            src \in (IF IsRemote(t.URI) THEN Responses ELSE Files) } :
               \E a \in {afterRead(r.err, r.entries)} :
                  /\ entries' = r.entries
                  /\ cands' = r.cands
                  /\ pc' = a.pc
                  /\ err' = a.err
                  /\ todo' = a.todo
    /\ UNCHANGED <<cfg, t, ctorErr, container, container0, calls, returned, visited>>
    /\ UNCHANGED scanVars

\* one call of the function walkDir hands to filepath.Walk
WalkFn ==
    /\ pc = "walk"
    /\ visited < MaxFiles
    /\ visited' = visited + 1
    /\ \E r \in { IF it.walkErr THEN Step(ErrWalk, entries, <<>>)
                    ELSE IF it.isDir THEN Step(None, entries, <<>>)
                    ELSE walkLocalFile(t, t.InputDir \o "/" \o it.base, "", it.file, entries) :
                    it \in WalkItems } :
          /\ entries' = r.entries
          /\ cands' = cands \o r.cands
          /\ IF r.err # None
             THEN \E a \in {afterRead(r.err, r.entries)} :
                     /\ pc' = a.pc
                     /\ err' = a.err
                     /\ todo' = a.todo
             ELSE UNCHANGED <<pc, err, todo>>
    /\ UNCHANGED <<cfg, t, ctorErr, container, container0, calls, returned>>
    /\ UNCHANGED scanVars

\* filepath.Walk returns nil: the tree is exhausted
WalkEnd ==
    /\ pc = "walk"
    /\ \E a \in {afterRead(None, entries)} :
          /\ pc' = a.pc
          /\ err' = a.err
          /\ todo' = a.todo
    /\ UNCHANGED <<cfg, t, ctorErr, container, container0, entries, calls, returned, cands,
                   visited>>
    /\ UNCHANGED scanVars

\* one iteration of "for _, entry := range entries" (map order is arbitrary)
Apply ==
    /\ pc = "apply"
    /\ \E code \in todo, ok \in BOOLEAN :
          \E r \in {applyEntry(t, container, entries[code], ok)} :
             /\ container' = r.container
             /\ calls' = calls \o r.calls
             /\ err' = r.err
             /\ pc' = IF r.err # None THEN "done" ELSE "apply"
             /\ todo' = IF r.err # None THEN todo ELSE todo \ {code}
    /\ UNCHANGED <<cfg, t, ctorErr, container0, entries, returned, cands, visited>>
    /\ UNCHANGED scanVars

\* "return container, nil"
Return ==
    /\ pc = "apply"
    /\ todo = {}
    /\ pc' = "done"
    /\ returned' = TRUE
    /\ UNCHANGED <<cfg, t, ctorErr, container, container0, entries, todo, calls, err, cands,
                   visited>>
    /\ UNCHANGED scanVars

Next == NewTextIn \/ NewTextInBadJSON \/ InputBegin \/ WalkFn \/ WalkEnd \/ Apply \/ Return

Spec == Init /\ [][Next]_vars

---------------------------------------------------------------------------
(* scanFile line by line: the reader yields any line over ScanAlphabet      *)

ScanAlphabet == {"#", "/", "*", " ", "1", "B"}

RECURSIVE StringsUpTo(_)
StringsUpTo(n) ==
    IF n = 0 THEN {""}
    ELSE StringsUpTo(n - 1) \cup { s \o c : s \in StringsUpTo(n - 1), c \in ScanAlphabet }

ScanLines == StringsUpTo(MaxLineLen)

ScanTmps ==
    [Name : {"cn"}, URI : {"lists/cn.txt"}, IPOrCIDR : {<<>>}, InputDir : {""},
     Want : {<<>>}, OnlyIPType : {""},
     RemovePrefixesInLine : {<<>>, <<" B ", "/">>},
     RemoveSuffixesInLine : {<<>>, <<"/1">>}]

InitScan ==
    /\ pc = "scan"
    /\ cfg \in ScanTmps
    /\ t = newTextIn(ActionAdd, cfg).t
    /\ ctorErr = None
    /\ container = EmptyMap
    /\ container0 = EmptyMap
    /\ entries = EmptyMap
    /\ todo = {}
    /\ calls = <<>>
    /\ err = None
    /\ returned = FALSE
    /\ cands = <<>>
    /\ visited = 0
    /\ ScanInit

\* scanner.Scan() returns true: the body of the loop, for the line read
ScanLine ==
    /\ pc = "scan"
    /\ nlines < MaxScanLines
    /\ nlines' = nlines + 1
    /\ \E raw \in ScanLines :
          \E l \in {scanLine(t, raw)} :
             /\ line' = raw
             /\ stripped' = l.stripped
             /\ args' = l.args
             /\ IF l.args = <<>>
                THEN /\ pc' = "line"
                     /\ UNCHANGED <<scanEntry, scanErr>>
                ELSE \E r \in {AddPrefix(scanEntry, l.args[1])} :
                        /\ scanEntry' = r.prefixes
                        /\ scanErr' = r.err
                        /\ pc' = IF r.err # None THEN "scanned" ELSE "line"
    /\ UNCHANGED <<cfg, t, ctorErr, container, container0, entries, todo, calls, err, returned,
                   cands, visited>>

\* back to the loop head: the loop's line variable goes out of scope
ScanNext ==
    /\ pc = "line"
    /\ pc' = "scan"
    /\ line' = ""
    /\ stripped' = ""
    /\ args' = <<>>
    /\ UNCHANGED <<scanEntry, scanErr, nlines>>
    /\ UNCHANGED <<cfg, t, ctorErr, container, container0, entries, todo, calls, err, returned,
                   cands, visited>>

\* scanner.Scan() returns false: end of input, or a read error
ScanEnd ==
    /\ pc = "scan"
    /\ \E readErr \in BOOLEAN : scanErr' = IF readErr THEN ErrRead ELSE None
    /\ pc' = "scanned"
    /\ UNCHANGED <<cfg, t, ctorErr, container, container0, entries, todo, calls, err, returned,
                   cands, visited>>
    /\ UNCHANGED <<line, stripped, args, scanEntry, nlines>>

NextScan == ScanLine \/ ScanNext \/ ScanEnd

SpecScan == InitScan /\ [][NextScan]_vars

---------------------------------------------------------------------------
(* Properties *)

\* exactly one source mode is selected by the four source fields
SingleMode(tmp) ==
    \/ /\ tmp.InputDir # ""
       /\ tmp.Name = "" /\ tmp.URI = "" /\ Len(tmp.IPOrCIDR) = 0
    \/ /\ tmp.InputDir = ""
       /\ tmp.Name # ""
       /\ (tmp.URI # "" \/ Len(tmp.IPOrCIDR) > 0)

\* C1: newTextIn returns a converter exactly when one source mode is selected
\* (inputDir alone, or name with uri and/or ipOrCIDR); every other combination
\* is rejected with an error and no converter; and Input of a constructed
\* converter never returns the "config missing argument" error.
C1_ModeCheckedAtConstruction ==
    /\ pc \in {"ready", "walk", "apply", "done"} => (ctorErr = None /\ SingleMode(cfg))
    /\ pc = "rejected" => (ctorErr # None /\ ~SingleMode(cfg) /\ t = ZeroTextIn)
    /\ err # ErrConfigMissing

\* a converter built from name + ipOrCIDR alone has run Input to success
C1_Witness ==
    /\ pc = "done"
    /\ returned
    /\ cfg.Name # "" /\ cfg.URI = "" /\ Len(cfg.IPOrCIDR) > 0

\* C2: with a non-empty want list, every code a successful Input has handed
\* to Container.Add or Container.Remove is in the want list, in every source
\* mode.
C2_OnlyWantedReachContainer ==
    (pc = "done" /\ returned /\ t.Want # {})
        => \A i \in DOMAIN calls : calls[i].code \in t.Want

\* there is no literal list, and no source step resolved a code that passes
\* the want list
NoneRetained ==
    /\ Len(t.IPOrCIDR) = 0
    /\ \A i \in DOMAIN cands : t.Want # {} /\ cands[i] \notin t.Want

\* C3: when no source yields a retained region (all candidates filtered out, or
\* a directory without regular files), an Input that ends without a source,
\* Container or action error has failed with "no entry is generated", returned
\* no Container and made no call: it never succeeds with nothing retained.
C3_EmptyResultRejected ==
    (pc = "done" /\ NoneRetained
       /\ err \notin SourceErrors \cup {ErrContainer, ErrUnknownAction})
        => (err = ErrNoEntry /\ ~returned /\ calls = <<>>)

\* two files of the walk resolved to the same region code
DuplicateCodes == { cands[i] : i \in { j \in DOMAIN cands : \E k \in DOMAIN cands : k # j /\ cands[k] = cands[j] } }

\* C4 as stated: whenever two regular files of one directory walk resolve to
\* the same upper-cased code, Input fails with "duplicated list" and nothing
\* is applied to the Container.
C4_DuplicateAlwaysRejected ==
    (pc = "done" /\ t.InputDir # "" /\ DuplicateCodes # {})
        => (err = ErrDuplicated /\ calls = <<>>)

\* C4 amended: two regular files resolving to the same code that passes the
\* want list make Input fail with "duplicated list", with nothing applied;
\* files whose code the want list filters out are skipped before the
\* duplicate check; short of that error, every Entry of the map comes from
\* exactly one file.
C4_DuplicateOfRetainedRejected ==
    t.InputDir # "" =>
        /\ (\E c \in DuplicateCodes : t.Want = {} \/ c \in t.Want)
              => /\ pc = "done"
                 /\ err = ErrDuplicated
                 /\ ~returned
                 /\ calls = <<>>
                 /\ container = container0
        /\ \A c \in DOMAIN entries :
              /\ entries[c].name = c
              /\ err # ErrDuplicated => Cardinality({ i \in DOMAIN cands : cands[i] = c }) = 1

\* a wanted code met twice in one walk, under a non-empty want list
C4_Witness ==
    /\ pc = "done"
    /\ err = ErrDuplicated
    /\ t.Want # {}
    /\ cands = <<"CN", "CN">>

\* addresses of one family covered by a set of prefixes
RangeOf(p) == p.addr .. (p.addr + Pow2(Bits(p.fam) - p.len) - 1)
AddrsOf(P, fam) == UNION { RangeOf(p) : p \in { q \in P : q.fam = fam } }

Families == {IPv4, IPv6}

AllPrefixes ==
    UNION { { [fam |-> f, addr |-> MaskAddr(f, a, l), len |-> l] :
                a \in 0..(Pow2(Bits(f)) - 1), l \in 0..Bits(f) } : f \in Families }

\* the minimal non-overlapping covering set: the largest prefixes inside the
\* covered addresses
MinimalCover(P) ==
    { q \in AllPrefixes :
        /\ RangeOf(q) \subseteq AddrsOf(P, q.fam)
        /\ (q.len = 0 \/ ~(RangeOf(ParentOf(q)) \subseteq AddrsOf(P, q.fam))) }

Listed(list) == { ParsePrefix(TrimSpace(list[i])) : i \in DOMAIN list }

StoredAt(c, code) == IF code \in DOMAIN c THEN c[code] ELSE {}

\* C5: after a successful add from name + literal ipOrCIDR, one Entry, for the
\* upper-cased name, was produced and applied; its prefix set is the minimal
\* covering set of the listed prefixes whatever their order and repetition,
\* and the Container holds for that code the minimal covering set of what it
\* held before together with the listed prefixes the ignore option lets
\* through (the listed prefixes alone for a fresh code and no onlyIPType).
C5_LiteralListCanonical ==
    (pc = "done" /\ returned /\ t.Action = ActionAdd /\ t.InputDir = "" /\ t.URI = "")
        => /\ DOMAIN entries = {ToUpper(t.Name)}
           /\ entries[ToUpper(t.Name)].prefixes = MinimalCover(Listed(t.IPOrCIDR))
           /\ Len(calls) = 1 /\ calls[1].code = ToUpper(t.Name)
           /\ DOMAIN container = DOMAIN container0 \cup {ToUpper(t.Name)}
           /\ container[ToUpper(t.Name)] =
                 MinimalCover(StoredAt(container0, ToUpper(t.Name)) \cup
                              { p \in Listed(t.IPOrCIDR) : ~Ignored(p, calls[1].ignore) })

\* [1/2, 0/1] into a fresh Container without onlyIPType: only 0/1 is held
C5_Witness ==
    /\ pc = "done"
    /\ returned
    /\ t.Action = ActionAdd /\ t.URI = "" /\ t.OnlyIPType = ""
    /\ t.IPOrCIDR = <<" 1/2 ", "0/1">>
    /\ container0 = EmptyMap
    /\ container = Put(EmptyMap, ToUpper(t.Name), {ParsePrefix("0/1")})

\* C6: a converter with name and uri produces exactly one Entry: the uri step
\* and the literal step resolve the configured name to the same region code,
\* so the literal values are appended to the Entry of the uri step, for a
\* local path and a remote URL, for every name.
C6_OneEntryForNameAndURI ==
    (pc = "apply" /\ t.Name # "" /\ t.URI # "")
        => /\ Cardinality(DOMAIN entries) = 1
           /\ \A i \in DOMAIN cands : \A j \in DOMAIN cands : cands[i] = cands[j]

\* the ignore option OnlyIPType stands for
IgnoreFor(only) ==
    CASE only = IPv4 -> IgnoreIPv6
      [] only = IPv6 -> IgnoreIPv4
      [] OTHER -> IgnoreNone

\* C7: every Container.Add / Container.Remove call of one Input carries the
\* same ignore option, the one OnlyIPType stands for (IPv4: ignore IPv6,
\* IPv6: ignore IPv4, unset: none).
C7_IgnoreOptionFixed ==
    \A i \in DOMAIN calls : calls[i].ignore = IgnoreFor(t.OnlyIPType)

\* two entries applied under onlyIPType = IPv4
C7_Witness ==
    /\ pc = "done"
    /\ returned
    /\ t.OnlyIPType = IPv4
    /\ Len(calls) = 2

CallsFor(code) == { i \in DOMAIN calls : calls[i].code = code }

\* C8: on success every produced entry has been applied exactly once, by Add
\* for action add and by Remove in prefix-covering mode for action remove
\* (after which no stored prefix of that code lies inside a removed prefix of
\* a family not ignored); with any other action Input never succeeds and
\* makes no Container call.
C8_AppliedUnderAction ==
    /\ (pc = "done" /\ returned)
          => /\ t.Action \in {ActionAdd, ActionRemove}
             /\ Len(calls) = Cardinality(DOMAIN entries)
             /\ \A c \in DOMAIN entries :
                   /\ Cardinality(CallsFor(entries[c].name)) = 1
                   /\ \A i \in CallsFor(entries[c].name) :
                         /\ calls[i].ok
                         /\ t.Action = ActionAdd => calls[i].op = "Add"
                         /\ t.Action = ActionRemove
                               => /\ calls[i].op = "Remove"
                                  /\ calls[i].mode = CaseRemovePrefix
                                  /\ \A q \in StoredAt(container, entries[c].name) :
                                        \A p \in entries[c].prefixes :
                                           Ignored(p, calls[i].ignore) \/ ~Covers(p, q)
    /\ t.Action \notin {ActionAdd, ActionRemove} => (~returned /\ calls = <<>>)

\* a remove of 0/1 has deleted the stored 0/2, which it covers
C8_Witness ==
    /\ pc = "done"
    /\ returned
    /\ t.Action = ActionRemove
    /\ "CN" \in DOMAIN entries /\ ParsePrefix("0/1") \in entries["CN"].prefixes
    /\ "CN" \in DOMAIN container0 /\ ParsePrefix("0") \in container0["CN"]
    /\ ParsePrefix("0") \notin container["CN"]

\* C9 as stated, for a directory walk: whenever Input returns an error it
\* returns no Container and no produced entry has been added to or removed
\* from the Container.
C9_ErrorLeavesContainerAlone ==
    (pc = "done" /\ err # None /\ t.InputDir # "")
        => (~returned /\ container = container0 /\ \A i \in DOMAIN calls : ~calls[i].ok)

\* C9 amended: Input returning an error returns no Container; an error of
\* the sources, of parsing, a duplicated list, an empty result or an unknown
\* action leaves the Container untouched with no call made; an error
\* returned by a Container call stops the loop at that call, the entries
\* applied before it staying applied; and once the first Container call is
\* made the entries are never read or changed again.
C9_ErrorBeforeApplyIsAtomic ==
    /\ [](/\ (pc = "done" /\ err # None)
                => /\ ~returned
                   /\ err # ErrContainer => (calls = <<>> /\ container = container0)
                   /\ err = ErrContainer
                         => /\ calls # <<>>
                            /\ ~calls[Len(calls)].ok
                            /\ \A i \in 1..(Len(calls) - 1) : calls[i].ok
          /\ calls # <<>> => pc \in {"apply", "done"})
    /\ [][calls # <<>> => UNCHANGED <<entries, cands, visited>>]_vars

\* the second of two Container calls failed: the first entry stays applied
C9_Witness ==
    /\ pc = "done"
    /\ err = ErrContainer
    /\ Len(calls) = 2
    /\ container # container0

Markers == {"#", "//", "/*"}
HasMarker(s) == \E m \in Markers : Index(s, m) >= 0
BeforeFirstMarker(s) ==
    IF HasMarker(s)
    THEN SubSeq(s, 1, Min({ Index(s, m) : m \in { x \in Markers : Index(s, x) >= 0 } }))
    ELSE s

\* C10: of every line read, the text considered is the part before the
\* earliest comment marker; AddPrefix is called at most once per line, never
\* with an empty string, surrounding whitespace or a comment marker; a line
\* empty after stripping and trimming is skipped; and the first AddPrefix
\* failure ends the scan with that error.
C10_LineNormalised ==
    /\ stripped = BeforeFirstMarker(line)
    /\ Len(args) <= 1
    /\ \A i \in DOMAIN args :
          /\ args[i] # ""
          /\ TrimSpace(args[i]) = args[i]
          /\ ~HasMarker(args[i])
    /\ TrimSpace(stripped) = "" => args = <<>>
    /\ (args # <<>> /\ ParsePrefix(args[1]) = BadPrefix)
          => (scanErr = ErrParse /\ pc = "scanned")
    /\ scanErr = ErrParse
          => (pc = "scanned" /\ args # <<>> /\ ParsePrefix(args[1]) = BadPrefix)

\* a line whose "/*" comes before its "#": the text before "/*" is parsed
C10_Witness ==
    /\ pc = "line"
    /\ Index(line, "/*") > 0
    /\ Index(line, "#") > Index(line, "/*")
    /\ args = <<"1">>
    /\ scanEntry = {ParsePrefix("1")}

====
